---- MODULE Spec2Model ----
(***************************************************************************)
(* Model of the cn commands "status", "purge" and "ls", the readiness      *)
(* polling they drive, the gateway port allocator, the network selector    *)
(* and the image metadata lookup, together with the container engine they  *)
(* talk to.                                                                *)
(*                                                                         *)
(* Strings that the code slices or concatenates (container names, port     *)
(* numbers) are sequences of one-character strings.                        *)
(***************************************************************************)
EXTENDS Integers, Sequences, FiniteSets, TLC

VARIABLES
    cmd,          \* the cobra command being run: "status" or "purge"
    IamSure,      \* purge.go:13, flag --yes-i-am-sure
    DeleteAll,    \* purge.go:19, flag --all
    pc,           \* position of the command in its code
    containers,   \* the engine: engine name -> [State, Image]
    clog,         \* stdout log of the cluster's container, a sequence of lines
    envChanges,   \* number of state changes made by actors other than the command
    seenStates,   \* history: states the cluster's container has had during the run
    ImageName,    \* process-wide image name (written by removeContainer)
    RgwPort,      \* echoInfo local: result of dockerInspect(.., "PortBindings")
    poll,         \* the local poll of cephNanoHealth / cephNanoS3Health
    ips,          \* result of the last getInterfaceIPv4s call
    exitCode,     \* -1 while running, then the process exit status
    fatalMsg,     \* what log.Fatal / the runtime reported when the process died
    printed,      \* set of messages printed to the user
    printedLog,   \* log content printed by cephNanoHealth on timeout
    calls,        \* history: number of calls per engine / network operation
    removals,     \* history: sequence of removal calls issued, with their target
    steps,        \* history: the stages of the command in the order they started
    nPolls,       \* history: number of grepForSuccess polls made
    absentPolls,  \* history: number of polls that read a log without the marker
    markerAt,     \* history: poll attempt that observed the marker, 0 if none
    url,          \* the local url of cephNanoS3Health
    keysFetched,  \* TRUE once getAwsKey has returned a key pair
    probes,       \* history: sequence of URLs probed by curlTestURL
    probeOkAt,    \* history: probe attempt that succeeded, 0 if none
    lastProbe,    \* history: what the last probe met, "none" before the first
    netErr,       \* history: the last getInterfaceIPv4s call returned an error
    dialFails,    \* ports of the scan range on which a connection attempt fails
    portI,        \* the loop variable i of generateRGWPortToUse
    portResult,   \* result of generateRGWPortToUse, <<>> before the call
    probedPorts,  \* history: ports dialled by generateRGWPortToUse, in order
    netIn,        \* what net.InterfaceAddrs() returns to getInterfaceIPv4s
    netOut,       \* what getInterfaceIPv4s returned, NoResult before the call
    imgLookup,    \* what the engine answers to ImageInspectWithRaw
    imgField,     \* the dataType argument of inspectImage
    imgOut,       \* what inspectImage returned, NoResult before the call
    lsTodo,       \* showNanoClusters: the listed containers not yet visited
    rows          \* showNanoClusters: the rows added to the table

vars == <<cmd, IamSure, DeleteAll, pc, containers, clog, envChanges, seenStates,
          ImageName, RgwPort, poll, ips, exitCode, fatalMsg, printed, printedLog,
          calls, removals, steps, nPolls, absentPolls, markerAt, url,
          keysFetched, probes, probeOkAt, lastProbe, netErr, dialFails, portI,
          portResult,
          probedPorts, netIn, netOut, imgLookup, imgField, imgOut, lsTodo,
          rows>>

cmdVars == <<cmd, IamSure, DeleteAll, pc, containers, clog, envChanges, seenStates,
             ImageName, RgwPort, poll, ips, exitCode, fatalMsg, printed, printedLog,
             calls, removals, steps, nPolls, absentPolls, markerAt, url,
             keysFetched, probes, probeOkAt, lastProbe, netErr>>

portVars == <<dialFails, portI, portResult, probedPorts>>

auxVars == <<netIn, netOut, imgLookup, imgField, imgOut, lsTodo, rows>>

----------------------------------------------------------------------------
(* Bounds of the model *)

MaxEnvChanges == 1      \* state changes by other actors during one run
MaxLogLen == 1          \* lines in the container log
MaxFree == 2            \* ports of the scan range on which the dial fails
MaxAddrs == 3           \* interface addresses of the machine
MaxTags == 2            \* repo tags, and repo digests, of an image

----------------------------------------------------------------------------
(* Names *)

ContainerNamePrefix == <<"n", "s", "-">>

Arg0 == <<"a">>

OtherName == <<"/">> \o ContainerNamePrefix \o <<"b">>

Range(s) == {s[i] : i \in DOMAIN s}

\* purgeNano / statusNano: ContainerName := ContainerNamePrefix + args[0]
ContainerName == ContainerNamePrefix \o Arg0

EngineName == <<"/">> \o ContainerName

----------------------------------------------------------------------------
(* The container engine *)

States == {"running", "exited", "created", "paused"}

Absent == "absent"

\* states of a container that the engine lists when All is false
ListedByDefault == {"running", "paused"}

ClusterImage == "img:v1"

DefaultImageName == "ceph/daemon"

Marker == "SUCCESS"

LogLines == {"boot", Marker}

EngineNames == {EngineName, OtherName}

\* ContainerList(ctx, ContainerListOptions{All: all, Quiet: true})
ContainerList(all) ==
    { [Names |-> <<n>>, State |-> containers[n].State, Image |-> containers[n].Image,
       ImageID |-> containers[n].ImageID] :
        n \in { m \in DOMAIN containers :
                  /\ containers[m].State # Absent
                  /\ (all \/ containers[m].State \in ListedByDefault) } }

\* containerStatus, after a successful ContainerList
containerStatus(name, allList, containerState) ==
    \E c \in ContainerList(allList) :
        \E i \in DOMAIN c.Names :
            c.Names[i] = <<"/">> \o name /\ c.State = containerState

ClusterState == containers[EngineName].State

\* strings.Contains(newStr, "SUCCESS")
ContainsMarker(l) == \E i \in DOMAIN l : l[i] = Marker

----------------------------------------------------------------------------
(* Helpers for the process *)

OpNames == {"list", "inspect", "logs", "exec", "http", "net",
            "containerRemove", "imageRemove", "imageInspect"}

Bump(op) == calls' = [calls EXCEPT ![op] = @ + 1]

Mark(s) == steps' = IF s \in Range(steps) THEN steps ELSE Append(steps, s)

\* os.Exit(code), log.Fatal(..) (exit status 1) or a runtime panic (exit status 2)
Terminate(code, msg) ==
    /\ pc' = "done"
    /\ exitCode' = code
    /\ fatalMsg' = msg

Say(m) == printed' = printed \cup {m}

Running == pc \notin {"done", "idle"}

----------------------------------------------------------------------------
(* Network selector *)

\* an interface address: its Network() string, whether To4() is non-nil,
\* a tag for the leading three octets and the last octet
Lo == [network |-> "ip+net", v4 |-> TRUE, net |-> "127.0.0", last |-> 1]
Eth200 == [network |-> "ip+net", v4 |-> TRUE, net |-> "10.0.0", last |-> 200]
Eth50 == [network |-> "ip+net", v4 |-> TRUE, net |-> "192.168.1", last |-> 50]
V6 == [network |-> "ip+net", v4 |-> FALSE, net |-> "fe80::", last |-> 1]

\* byLastOctetValue.Less with the comparison turned round
Less_Greater(a, b) == a.last > b.last

\* byLastOctetValue.Less
Less(a, b) == a.last < b.last

\* one insertion step of sort.Sort(sort.Reverse(..)): x moves left past every
\* element y with Less(y, x)
RECURSIVE InsertDesc(_, _)
InsertDesc(sorted, x) ==
    IF sorted = <<>> THEN <<x>>
    ELSE IF Less(sorted[Len(sorted)], x)
         THEN Append(InsertDesc(SubSeq(sorted, 1, Len(sorted) - 1), x),
                     sorted[Len(sorted)])
         ELSE Append(sorted, x)

RECURSIVE SortDesc(_)
SortDesc(s) ==
    IF s = <<>> THEN <<>>
    ELSE InsertDesc(SortDesc(SubSeq(s, 1, Len(s) - 1)), s[Len(s)])

IsIPv4(a) == a.network = "ip+net" /\ a.v4

\* getInterfaceIPv4s, after a successful net.InterfaceAddrs()
getInterfaceIPv4s(addrs) == SortDesc(SelectSeq(addrs, IsIPv4))

\* what net.InterfaceAddrs() may return to a run of the status command
NetOutcomes ==
    { [err |-> TRUE, addrs |-> <<>>] } \cup
    { [err |-> FALSE, addrs |-> a] :
        a \in { <<>>, <<V6>>, <<Lo, Eth200>>, <<Lo, V6, Eth50, Eth200>> } }

\* ips, _ := getInterfaceIPv4s(): the error is dropped and ips is nil
IpsOf(r) == IF r.err THEN <<>> ELSE getInterfaceIPv4s(r.addrs)

----------------------------------------------------------------------------
(* Initial states *)

NoLog == <<"<nothing>">>

NoUrl == [host |-> "none", port |-> "none"]

ClusterPort == "8000"

\* the image ID as the engine reports it, sha256:<ID>
ClusterImageID == <<"s", "h", "a", "2", "5", "6", ":", "i", "1">>

Container(st) ==
    [State |-> st, Image |-> ClusterImage, Port |-> ClusterPort,
     ImageID |-> ClusterImageID]

\* the locals and histories of a command that has not begun
CmdFresh ==
    /\ envChanges = 0
    /\ seenStates = {ClusterState}
    /\ ImageName = DefaultImageName
    /\ RgwPort = "none"
    /\ poll = 0
    /\ ips = <<>>
    /\ exitCode = -1
    /\ fatalMsg = "none"
    /\ printed = {}
    /\ printedLog = NoLog
    /\ calls = [o \in OpNames |-> 0]
    /\ removals = <<>>
    /\ steps = <<>>
    /\ nPolls = 0
    /\ absentPolls = 0
    /\ markerAt = 0
    /\ url = NoUrl
    /\ keysFetched = FALSE
    /\ probes = <<>>
    /\ probeOkAt = 0
    /\ lastProbe = "none"
    /\ netErr = FALSE

CmdInit ==
    /\ cmd \in {"status", "purge"}
    /\ IamSure \in BOOLEAN
    /\ DeleteAll \in BOOLEAN
    /\ cmd = "status" => (~IamSure /\ ~DeleteAll)
    /\ pc = "start"
    /\ \E st \in States \cup {Absent}, ot \in {"running", "exited"} :
          containers = [n \in EngineNames |->
                           IF n = EngineName THEN Container(st) ELSE Container(ot)]
    /\ clog \in {<<>>, <<"boot">>, <<Marker>>}
    /\ ClusterState \in {Absent, "created"} => clog = <<>>
    /\ CmdFresh

\* no command is run
CmdIdle ==
    /\ cmd = "none"
    /\ IamSure = FALSE
    /\ DeleteAll = FALSE
    /\ pc = "idle"
    /\ containers = [n \in EngineNames |-> Container(Absent)]
    /\ clog = <<>>
    /\ CmdFresh

PortIdle ==
    /\ dialFails = {}
    /\ portI = 0
    /\ portResult = <<>>
    /\ probedPorts = <<>>

NoResult == [none |-> TRUE]

\* getInterfaceIPv4s, inspectImage and showNanoClusters are not called
AuxIdle ==
    /\ netIn = NoResult
    /\ netOut = NoResult
    /\ imgLookup = NoResult
    /\ imgField = "none"
    /\ imgOut = NoResult
    /\ lsTodo = <<>>
    /\ rows = <<>>

Init == CmdInit /\ PortIdle /\ AuxIdle

----------------------------------------------------------------------------
(* Existence and state checks shared by status and purge *)

\* statusNano, up to its call of notExistCheck
StatusNano ==
    /\ pc = "start"
    /\ cmd = "status"
    /\ pc' = "notExistRunning"
    /\ Mark("requireExists")
    /\ UNCHANGED <<netErr, cmd, IamSure, DeleteAll, containers, clog, envChanges,
                   seenStates, ImageName, RgwPort, poll, ips, exitCode, fatalMsg,
                   printed, printedLog, calls, removals, nPolls, absentPolls,
                   markerAt, url, keysFetched, probes, probeOkAt, lastProbe, portVars, auxVars>>

\* purgeNano without the os.Exit(1) of the unconfirmed case
PurgeNano_Unconfirmed ==
    /\ pc = "start"
    /\ cmd = "purge"
    /\ printed' = IF ~IamSure THEN printed \cup {"guidance"} ELSE printed
    /\ pc' = "notExistRunning"
    /\ Mark("requireExists")
    /\ UNCHANGED <<netErr, cmd, IamSure, DeleteAll, containers, clog, envChanges,
                   seenStates, ImageName, RgwPort, poll, ips, exitCode, fatalMsg,
                   printedLog, calls, removals, nPolls, absentPolls, markerAt,
                   url, keysFetched, probes, probeOkAt, lastProbe, portVars, auxVars>>

\* purgeNano, up to its call of notExistCheck
PurgeNano ==
    /\ pc = "start"
    /\ cmd = "purge"
    /\ IF ~IamSure
       THEN /\ Say("guidance")
            /\ Terminate(1, "none")
            /\ UNCHANGED steps
       ELSE /\ pc' = "notExistRunning"
            /\ Mark("requireExists")
            /\ UNCHANGED <<printed, exitCode, fatalMsg>>
    /\ UNCHANGED <<netErr, cmd, IamSure, DeleteAll, containers, clog, envChanges,
                   seenStates, ImageName, RgwPort, poll, ips, printedLog, calls,
                   removals, nPolls, absentPolls, markerAt, url, keysFetched,
                   probes, probeOkAt, lastProbe, portVars, auxVars>>

\* where the command continues when notExistCheck returns
\* the choice made as if the delete-all flag were always set
AfterNotExistCheck_AlwaysInspect ==
    IF cmd = "status" THEN "notRunningCheck" ELSE "removeInspect"

AfterNotExistCheck ==
    IF cmd = "status" THEN "notRunningCheck"
    ELSE IF DeleteAll THEN "removeInspect" ELSE "containerRemove"

\* notExistCheck: the first operand, !containerStatus(ContainerName, false, "running")
NotExistRunning ==
    /\ pc = "notExistRunning"
    /\ Bump("list")
    /\ \E err \in BOOLEAN :
          IF err
          THEN /\ Terminate(1, "engine")
               /\ UNCHANGED <<printed, steps>>
          ELSE IF containerStatus(ContainerName, FALSE, "running")
               THEN /\ pc' = AfterNotExistCheck
                    /\ Mark("exists")
                    /\ printed' = IF cmd = "purge" THEN printed \cup {"purging"}
                                  ELSE printed
                    /\ UNCHANGED <<exitCode, fatalMsg>>
               ELSE /\ pc' = "notExistExited"
                    /\ UNCHANGED <<printed, steps, exitCode, fatalMsg>>
    /\ UNCHANGED <<netErr, cmd, IamSure, DeleteAll, containers, clog, envChanges,
                   seenStates, ImageName, RgwPort, poll, ips, printedLog,
                   removals, nPolls, absentPolls, markerAt, url,
                   keysFetched, probes, probeOkAt, lastProbe, portVars, auxVars>>

\* notExistCheck's second operand without the os.Exit(0)
NotExistExited_NoExit ==
    /\ pc = "notExistExited"
    /\ Bump("list")
    /\ \E err \in BOOLEAN :
          IF err
          THEN /\ Terminate(1, "engine")
               /\ UNCHANGED <<printed, steps>>
          ELSE /\ pc' = AfterNotExistCheck
               /\ Mark("exists")
               /\ printed' = IF containerStatus(ContainerName, FALSE, "exited")
                             THEN (IF cmd = "purge" THEN printed \cup {"purging"}
                                   ELSE printed)
                             ELSE printed \cup {"doesNotExist"}
               /\ UNCHANGED <<exitCode, fatalMsg>>
    /\ UNCHANGED <<netErr, cmd, IamSure, DeleteAll, containers, clog, envChanges,
                   seenStates, ImageName, RgwPort, poll, ips, printedLog,
                   removals, nPolls, absentPolls, markerAt, url,
                   keysFetched, probes, probeOkAt, lastProbe, portVars, auxVars>>

\* notExistCheck: the second operand, !containerStatus(ContainerName, false, "exited")
NotExistExited ==
    /\ pc = "notExistExited"
    /\ Bump("list")
    /\ \E err \in BOOLEAN :
          IF err
          THEN /\ Terminate(1, "engine")
               /\ UNCHANGED <<printed, steps>>
          ELSE IF containerStatus(ContainerName, FALSE, "exited")
               THEN /\ pc' = AfterNotExistCheck
                    /\ Mark("exists")
                    /\ printed' = IF cmd = "purge" THEN printed \cup {"purging"}
                                  ELSE printed
                    /\ UNCHANGED <<exitCode, fatalMsg>>
               ELSE /\ Say("doesNotExist")
                    /\ Terminate(0, "none")
                    /\ UNCHANGED steps
    /\ UNCHANGED <<netErr, cmd, IamSure, DeleteAll, containers, clog, envChanges,
                   seenStates, ImageName, RgwPort, poll, ips, printedLog,
                   removals, nPolls, absentPolls, markerAt, url,
                   keysFetched, probes, probeOkAt, lastProbe, portVars, auxVars>>

\* notRunningCheck
\* notRunningCheck followed by an echoInfo that waits for Phase 1 before it
\* resolves the port
NotRunningCheck_PollsFirst ==
    /\ pc = "notRunningCheck"
    /\ Bump("list")
    /\ Mark("requireRunning")
    /\ \E err \in BOOLEAN :
          IF err
          THEN /\ Terminate(1, "engine")
               /\ UNCHANGED printed
          ELSE IF containerStatus(ContainerName, TRUE, "exited")
               THEN /\ Say("notRunning")
                    /\ Terminate(0, "none")
               ELSE /\ pc' = "cephNanoHealth"
                    /\ UNCHANGED <<printed, exitCode, fatalMsg>>
    /\ UNCHANGED <<netErr, cmd, IamSure, DeleteAll, containers, clog, envChanges,
                   seenStates, ImageName, RgwPort, poll, ips, printedLog,
                   removals, nPolls, absentPolls, markerAt, url, keysFetched,
                   probes, probeOkAt, lastProbe, portVars, auxVars>>

NotRunningCheck ==
    /\ pc = "notRunningCheck"
    /\ Bump("list")
    /\ Mark("requireRunning")
    /\ \E err \in BOOLEAN :
          IF err
          THEN /\ Terminate(1, "engine")
               /\ UNCHANGED printed
          ELSE IF containerStatus(ContainerName, TRUE, "exited")
               THEN /\ Say("notRunning")
                    /\ Terminate(0, "none")
               ELSE /\ pc' = "inspectPort"
                    /\ UNCHANGED <<printed, exitCode, fatalMsg>>
    /\ UNCHANGED <<netErr, cmd, IamSure, DeleteAll, containers, clog, envChanges,
                   seenStates, ImageName, RgwPort, poll, ips, printedLog,
                   removals, nPolls, absentPolls, markerAt, url, keysFetched,
                   probes, probeOkAt, lastProbe, portVars, auxVars>>

----------------------------------------------------------------------------
(* status: echoInfo *)

\* ContainerInspect fails when the engine holds no such container
InspectFails(err) == err \/ ClusterState = Absent

\* ContainerLogs fails when the engine holds no such container
LogsFails(err) == err \/ ClusterState = Absent

\* ContainerExecCreate / ContainerExecAttach fail unless the container runs
ExecFails(err) == err \/ ClusterState # "running"

\* a loop that runs while poll <= 60
cephNanoHealth_timeout_OneMore == 60 + 1

\* the local timeout of cephNanoHealth
cephNanoHealth_timeout == 60

cephNanoS3Health_timeout_OneMore == 30 + 1

\* the local timeout of cephNanoS3Health
cephNanoS3Health_timeout == 30

\* echoInfo: RgwPort := dockerInspect(ContainerName, "PortBindings")
InspectPort ==
    /\ pc = "inspectPort"
    /\ Bump("inspect")
    /\ Mark("inspectPort")
    /\ \E err \in BOOLEAN :
          IF InspectFails(err)
          THEN /\ Terminate(1, "engine")
               /\ UNCHANGED <<RgwPort, poll>>
          ELSE /\ RgwPort' = containers[EngineName].Port
               /\ pc' = "cephNanoHealth"
               /\ poll' = 0
               /\ UNCHANGED <<exitCode, fatalMsg>>
    /\ UNCHANGED <<netErr, cmd, IamSure, DeleteAll, containers, clog, envChanges,
                   seenStates, ImageName, ips, printed, printedLog, removals,
                   nPolls, absentPolls, markerAt, url, keysFetched, probes,
                   probeOkAt, lastProbe, portVars, auxVars>>

\* cephNanoHealth: one turn of the loop, a call of grepForSuccess
GrepForSuccess ==
    /\ pc = "cephNanoHealth"
    /\ poll < cephNanoHealth_timeout
    /\ Bump("logs")
    /\ Mark("phase1")
    /\ nPolls' = nPolls + 1
    /\ \E err \in BOOLEAN :
          IF LogsFails(err)
          THEN /\ Terminate(1, "engine")
               /\ UNCHANGED <<poll, absentPolls, markerAt>>
          ELSE IF ContainsMarker(clog)
               THEN /\ markerAt' = nPolls + 1
                    /\ pc' = "s3Ips"
                    /\ UNCHANGED <<poll, absentPolls, exitCode, fatalMsg>>
               ELSE /\ absentPolls' = absentPolls + 1
                    /\ poll' = poll + 1
                    /\ UNCHANGED <<pc, markerAt, exitCode, fatalMsg>>
    /\ UNCHANGED <<netErr, cmd, IamSure, DeleteAll, containers, clog, envChanges,
                   seenStates, ImageName, RgwPort, ips, printed, printedLog,
                   removals, url, keysFetched, probes, probeOkAt, lastProbe, portVars, auxVars>>

\* cephNanoHealth without its final log.Fatal
HealthTimeout_NoFatal ==
    /\ pc = "cephNanoHealth"
    /\ ~(poll < cephNanoHealth_timeout)
    /\ Bump("logs")
    /\ Say("neverReachedCleanState")
    /\ \E err \in BOOLEAN :
          IF LogsFails(err)
          THEN /\ Terminate(1, "engine")
               /\ UNCHANGED printedLog
          ELSE /\ printedLog' = clog
               /\ pc' = "s3Ips"
               /\ UNCHANGED <<exitCode, fatalMsg>>
    /\ UNCHANGED <<netErr, cmd, IamSure, DeleteAll, containers, clog, envChanges,
                   seenStates, ImageName, RgwPort, poll, ips, removals, steps,
                   nPolls, absentPolls, markerAt, url, keysFetched, probes,
                   probeOkAt, lastProbe, portVars, auxVars>>

\* cephNanoHealth: after the loop, the log is read again, printed, and the
\* process dies
HealthTimeout ==
    /\ pc = "cephNanoHealth"
    /\ ~(poll < cephNanoHealth_timeout)
    /\ Bump("logs")
    /\ Say("neverReachedCleanState")
    /\ \E err \in BOOLEAN :
          IF LogsFails(err)
          THEN /\ Terminate(1, "engine")
               /\ UNCHANGED printedLog
          ELSE /\ printedLog' = clog
               /\ Terminate(1, "openIssueWithLogs")
    /\ UNCHANGED <<netErr, cmd, IamSure, DeleteAll, containers, clog, envChanges,
                   seenStates, ImageName, RgwPort, poll, ips, removals, steps,
                   nPolls, absentPolls, markerAt, url, keysFetched, probes,
                   probeOkAt, lastProbe, portVars, auxVars>>

\* cephNanoS3Health, up to its loop: the address list and the url
S3Ips ==
    /\ pc = "s3Ips"
    /\ Bump("net")
    /\ Mark("phase2")
    /\ \E r \in NetOutcomes :
          /\ ips' = IpsOf(r)
          /\ netErr' = r.err
          /\ IF ips' = <<>>
             THEN /\ Terminate(2, "indexOutOfRange")
                  /\ UNCHANGED <<url, poll>>
             ELSE /\ url' = [host |-> ips'[1], port |-> RgwPort]
                  /\ poll' = 0
                  /\ pc' = "s3Health"
                  /\ UNCHANGED <<exitCode, fatalMsg>>
    /\ UNCHANGED <<cmd, IamSure, DeleteAll, containers, clog, envChanges,
                   seenStates, ImageName, RgwPort, printed, printedLog, removals,
                   nPolls, absentPolls, markerAt, keysFetched, probes, probeOkAt,
                   lastProbe, portVars, auxVars>>

\* what http.Get followed by ioutil.ReadAll may do
HttpOutcomes == {"getError", "bodyError", "ok"}

\* curlTestURL without the check of the body read
curlTestURL_BodyUnread(outcome) == outcome # "getError"

\* curlTestURL
curlTestURL(outcome) == outcome = "ok"

\* cephNanoS3Health: one turn of the loop, a call of curlTestURL
CurlTestURL ==
    /\ pc = "s3Health"
    /\ poll < cephNanoS3Health_timeout
    /\ Bump("http")
    /\ probes' = Append(probes, url)
    /\ \E o \in HttpOutcomes :
          /\ lastProbe' = o
          /\ IF curlTestURL(o)
             THEN /\ probeOkAt' = Len(probes) + 1
                  /\ pc' = "getAwsKey"
                  /\ UNCHANGED poll
             ELSE /\ poll' = poll + 1
                  /\ UNCHANGED <<pc, probeOkAt>>
    /\ UNCHANGED <<netErr, cmd, IamSure, DeleteAll, containers, clog, envChanges,
                   seenStates, ImageName, RgwPort, ips, exitCode, fatalMsg,
                   printed, printedLog, removals, steps, nPolls, absentPolls,
                   markerAt, url, keysFetched, portVars, auxVars>>

\* cephNanoS3Health falling out of its loop and returning
S3Timeout_Returns ==
    /\ pc = "s3Health"
    /\ ~(poll < cephNanoS3Health_timeout)
    /\ pc' = "getAwsKey"
    /\ UNCHANGED <<netErr, cmd, IamSure, DeleteAll, containers, clog, envChanges,
                   seenStates, ImageName, RgwPort, poll, ips, exitCode, fatalMsg,
                   printed, printedLog, calls, removals, steps, nPolls,
                   absentPolls, markerAt, url, keysFetched, probes, probeOkAt,
                   lastProbe, portVars, auxVars>>

\* cephNanoS3Health: after the loop
S3Timeout ==
    /\ pc = "s3Health"
    /\ ~(poll < cephNanoS3Health_timeout)
    /\ Say("s3NotResponding")
    /\ pc' = "showS3Logs"
    /\ UNCHANGED <<netErr, cmd, IamSure, DeleteAll, containers, clog, envChanges,
                   seenStates, ImageName, RgwPort, poll, ips, exitCode, fatalMsg,
                   printedLog, calls, removals, steps, nPolls, absentPolls,
                   markerAt, url, keysFetched, probes, probeOkAt, lastProbe, portVars, auxVars>>

\* showS3Logs, then the log.Fatal that ends cephNanoS3Health
ShowS3Logs ==
    /\ pc = "showS3Logs"
    /\ \E err \in BOOLEAN :
          IF err
          THEN /\ Terminate(1, "engine")
               /\ UNCHANGED printed
          ELSE /\ Say("s3Logs")
               /\ Terminate(1, "openIssue")
    /\ UNCHANGED <<netErr, cmd, IamSure, DeleteAll, containers, clog, envChanges,
                   seenStates, ImageName, RgwPort, poll, ips, printedLog, calls,
                   removals, steps, nPolls, absentPolls, markerAt, url,
                   keysFetched, probes, probeOkAt, lastProbe, portVars, auxVars>>

\* number of key pairs in the document that getAwsKey unmarshals
KeyCounts == {0, 1, 2}

\* getAwsKey: execContainer(cat /nano_user_details), then parsedMap.Keys[0]
GetAwsKey ==
    /\ pc = "getAwsKey"
    /\ Bump("exec")
    /\ Mark("credentials")
    /\ \E err \in BOOLEAN, k \in KeyCounts :
          IF ExecFails(err)
          THEN /\ Terminate(1, "engine")
               /\ UNCHANGED keysFetched
          ELSE IF k = 0
               THEN /\ Terminate(2, "indexOutOfRange")
                    /\ UNCHANGED keysFetched
               ELSE /\ keysFetched' = TRUE
                    /\ pc' = "cephHealth"
                    /\ UNCHANGED <<exitCode, fatalMsg>>
    /\ UNCHANGED <<netErr, cmd, IamSure, DeleteAll, containers, clog, envChanges,
                   seenStates, ImageName, RgwPort, poll, ips, printed,
                   printedLog, removals, nPolls, absentPolls, markerAt, url,
                   probes, probeOkAt, lastProbe, portVars, auxVars>>

\* echoInfo: c := execContainer(ContainerName, {"ceph", "health"})
CephHealth ==
    /\ pc = "cephHealth"
    /\ Bump("exec")
    /\ Mark("cephHealth")
    /\ \E err \in BOOLEAN :
          IF ExecFails(err)
          THEN Terminate(1, "engine")
          ELSE /\ pc' = "infoIps"
               /\ UNCHANGED <<exitCode, fatalMsg>>
    /\ UNCHANGED <<netErr, cmd, IamSure, DeleteAll, containers, clog, envChanges,
                   seenStates, ImageName, RgwPort, poll, ips, printed,
                   printedLog, removals, nPolls, absentPolls, markerAt, url,
                   keysFetched, probes, probeOkAt, lastProbe, portVars, auxVars>>

\* echoInfo: ips, _ := getInterfaceIPv4s()
InfoIps ==
    /\ pc = "infoIps"
    /\ Bump("net")
    /\ \E r \in NetOutcomes :
          /\ ips' = IpsOf(r)
          /\ netErr' = r.err
    /\ pc' = "inspectBinds"
    /\ UNCHANGED <<cmd, IamSure, DeleteAll, containers, clog, envChanges,
                   seenStates, ImageName, RgwPort, poll, exitCode, fatalMsg,
                   printed, printedLog, removals, steps, nPolls, absentPolls,
                   markerAt, url, keysFetched, probes, probeOkAt, lastProbe, portVars, auxVars>>

\* echoInfo: dir := dockerInspect(ContainerName, "Binds"), then InfoLine is
\* composed (ips[0]) and printed
InspectBindsAndReport ==
    /\ pc = "inspectBinds"
    /\ Bump("inspect")
    /\ \E err \in BOOLEAN :
          IF InspectFails(err)
          THEN /\ Terminate(1, "engine")
               /\ UNCHANGED <<printed, steps>>
          ELSE IF ips = <<>>
               THEN /\ Terminate(2, "indexOutOfRange")
                    /\ UNCHANGED <<printed, steps>>
               ELSE /\ Say("report")
                    /\ Mark("report")
                    /\ Terminate(0, "none")
    /\ UNCHANGED <<netErr, cmd, IamSure, DeleteAll, containers, clog, envChanges,
                   seenStates, ImageName, RgwPort, poll, ips, printedLog,
                   removals, nPolls, absentPolls, markerAt, url, keysFetched,
                   probes, probeOkAt, lastProbe, portVars, auxVars>>

----------------------------------------------------------------------------
(* purge: removeContainer *)

ContainerRemoveOptions == [RemoveLinks |-> FALSE, RemoveVolumes |-> TRUE, Force |-> TRUE]

ImageRemoveOptions == [Force |-> TRUE, PruneChildren |-> TRUE]

\* removeContainer: ImageName = dockerInspect(ContainerName, "image")
RemoveInspect ==
    /\ pc = "removeInspect"
    /\ Bump("inspect")
    /\ \E err \in BOOLEAN :
          IF InspectFails(err)
          THEN /\ Terminate(1, "engine")
               /\ UNCHANGED ImageName
          ELSE /\ ImageName' = containers[EngineName].Image
               /\ pc' = "containerRemove"
               /\ UNCHANGED <<exitCode, fatalMsg>>
    /\ UNCHANGED <<netErr, cmd, IamSure, DeleteAll, containers, clog, envChanges,
                   seenStates, RgwPort, poll, ips, printed, printedLog, removals,
                   steps, nPolls, absentPolls, markerAt, url, keysFetched,
                   probes, probeOkAt, lastProbe, portVars, auxVars>>

\* removeContainer: getDocker().ContainerRemove(ctx, ContainerName, options),
\* its error dropped
ContainerRemove ==
    /\ pc = "containerRemove"
    /\ Bump("containerRemove")
    /\ removals' = Append(removals, [op |-> "containerRemove", target |-> ContainerName,
                                     options |-> ContainerRemoveOptions])
    /\ \E err \in BOOLEAN :
          IF err \/ ClusterState = Absent
          THEN UNCHANGED <<containers, clog, seenStates>>
          ELSE /\ containers' = [containers EXCEPT ![EngineName].State = Absent]
               /\ clog' = <<>>
               /\ seenStates' = seenStates \cup {Absent}
    /\ IF DeleteAll
       THEN /\ pc' = "imageRemove"
            /\ UNCHANGED <<exitCode, fatalMsg>>
       ELSE Terminate(0, "none")
    /\ UNCHANGED <<netErr, cmd, IamSure, DeleteAll, envChanges, ImageName, RgwPort, poll,
                   ips, printed, printedLog, steps, nPolls, absentPolls, markerAt,
                   url, keysFetched, probes, probeOkAt, lastProbe, portVars, auxVars>>

\* removeContainer: getDocker().ImageRemove(ctx, ImageName, options), its
\* error dropped
ImageRemove ==
    /\ pc = "imageRemove"
    /\ Say("removingImage")
    /\ Bump("imageRemove")
    /\ removals' = Append(removals, [op |-> "imageRemove", target |-> ImageName,
                                     options |-> ImageRemoveOptions])
    /\ Terminate(0, "none")
    /\ UNCHANGED <<netErr, cmd, IamSure, DeleteAll, containers, clog, envChanges,
                   seenStates, ImageName, RgwPort, poll, ips, printedLog, steps,
                   nPolls, absentPolls, markerAt, url, keysFetched, probes,
                   probeOkAt, lastProbe, portVars, auxVars>>

----------------------------------------------------------------------------
(* Other actors on the engine *)

\* another client of the engine starts, stops, pauses, creates or removes the
\* cluster's container while the command runs
EngineChange ==
    /\ Running
    /\ envChanges < MaxEnvChanges
    /\ envChanges' = envChanges + 1
    /\ \E st \in (States \cup {Absent}) \ {ClusterState} :
          /\ containers' = [containers EXCEPT ![EngineName].State = st]
          /\ clog' = IF st = Absent THEN <<>> ELSE clog
          /\ seenStates' = seenStates \cup {st}
    /\ UNCHANGED <<netErr, cmd, IamSure, DeleteAll, pc, ImageName, RgwPort, poll, ips,
                   exitCode, fatalMsg, printed, printedLog, calls, removals,
                   steps, nPolls, absentPolls, markerAt, url, keysFetched,
                   probes, probeOkAt, lastProbe, portVars, auxVars>>

\* the running container writes a line to its log
LogAppend ==
    /\ Running
    /\ ClusterState = "running"
    /\ Len(clog) < MaxLogLen
    /\ \E l \in LogLines : clog' = Append(clog, l)
    /\ UNCHANGED <<netErr, cmd, IamSure, DeleteAll, pc, containers, envChanges,
                   seenStates, ImageName, RgwPort, poll, ips, exitCode, fatalMsg,
                   printed, printedLog, calls, removals, steps, nPolls,
                   absentPolls, markerAt, url, keysFetched, probes, probeOkAt,
                   lastProbe, portVars, auxVars>>

Next ==
    \/ StatusNano
    \/ PurgeNano
    \/ NotExistRunning
    \/ NotExistExited
    \/ NotRunningCheck
    \/ InspectPort
    \/ GrepForSuccess
    \/ HealthTimeout
    \/ S3Ips
    \/ CurlTestURL
    \/ S3Timeout
    \/ ShowS3Logs
    \/ GetAwsKey
    \/ CephHealth
    \/ InfoIps
    \/ InspectBindsAndReport
    \/ RemoveInspect
    \/ ContainerRemove
    \/ ImageRemove
    \/ EngineChange
    \/ LogAppend

Spec == Init /\ [][Next]_vars

----------------------------------------------------------------------------
(* status on its own, with the progress the process makes *)

\* the steps the process of the status command takes
StatusStep ==
    \/ StatusNano
    \/ NotExistRunning
    \/ NotExistExited
    \/ NotRunningCheck
    \/ InspectPort
    \/ GrepForSuccess
    \/ HealthTimeout
    \/ S3Ips
    \/ CurlTestURL
    \/ S3Timeout
    \/ ShowS3Logs
    \/ GetAwsKey
    \/ CephHealth
    \/ InfoIps
    \/ InspectBindsAndReport

InitStatus == Init /\ cmd = "status"

NextStatus == StatusStep \/ LogAppend

\* the process is scheduled as long as it has a step to take (every engine
\* call and HTTP request returns, with an error or with an answer); the
\* container may write its log at any time
FairStatus == InitStatus /\ [][NextStatus]_vars /\ WF_vars(StatusStep)

----------------------------------------------------------------------------
(* Port allocator *)

\* for i := 8000; ...
MinPort == 8000

\* maxPort := 8100
maxPort == 8100

PortRange == MinPort..maxPort

Digits == <<"0", "1", "2", "3", "4", "5", "6", "7", "8", "9">>

\* fmt.Sprint(i) for i >= 0
RECURSIVE Sprint(_)
Sprint(i) ==
    IF i < 10 THEN <<Digits[i + 1]>>
    ELSE Append(Sprint(i \div 10), Digits[(i % 10) + 1])

DigitValue(c) == CHOOSE d \in 0..9 : Digits[d + 1] = c

\* the port number the dialler reads from the port string
RECURSIVE Atoi(_)
Atoi(str) ==
    IF str = <<>> THEN 0
    ELSE 10 * Atoi(SubSeq(str, 1, Len(str) - 1)) + DigitValue(str[Len(str)])

NotFound == <<"n", "o", "t", "f", "o", "u", "n", "d">>

\* checkPortInUsed with the test of err inverted
checkPortInUsed_Inverted(portNum) == Atoi(portNum) \notin dialFails

\* checkPortInUsed: TRUE when net.DialTimeout returns an error
checkPortInUsed(portNum) == Atoi(portNum) \in dialFails

\* generateRGWPortToUse: one turn of the loop
CheckPort ==
    /\ portResult = <<>>
    /\ portI <= maxPort
    /\ probedPorts' = Append(probedPorts, portI)
    /\ IF checkPortInUsed(Sprint(portI))
       THEN /\ portResult' = Sprint(portI)
            /\ UNCHANGED portI
       ELSE /\ portI' = portI + 1
            /\ UNCHANGED portResult
    /\ UNCHANGED <<dialFails, cmdVars, auxVars>>

\* generateRGWPortToUse: after the loop
PortNotFound ==
    /\ portResult = <<>>
    /\ ~(portI <= maxPort)
    /\ portResult' = NotFound
    /\ UNCHANGED <<dialFails, portI, probedPorts, cmdVars, auxVars>>

\* the sets of at most k ports of the range
RECURSIVE PortSets(_)
PortSets(k) ==
    IF k = 0 THEN {{}}
    ELSE LET P == PortSets(k - 1)
         IN  P \cup { S \cup {x} : S \in P, x \in PortRange }

InitPort ==
    /\ CmdIdle
    /\ AuxIdle
    /\ dialFails \in PortSets(MaxFree)
    /\ portI = MinPort
    /\ portResult = <<>>
    /\ probedPorts = <<>>

NextPort == CheckPort \/ PortNotFound

SpecPort == InitPort /\ [][NextPort]_vars

----------------------------------------------------------------------------
(* Network selector, called on its own *)

\* a second address whose last octet is 50
Wlan50 == [network |-> "ip+net", v4 |-> TRUE, net |-> "172.16.0", last |-> 50]

AddrUniverse == {Lo, Eth200, Eth50, Wlan50, V6}

AddrLists == UNION { [1..n -> AddrUniverse] : n \in 0..MaxAddrs }

\* getInterfaceIPv4s with both of its results
getInterfaceIPv4sResult(r) ==
    IF r.err THEN [ips |-> <<>>, err |-> TRUE]
    ELSE [ips |-> getInterfaceIPv4s(r.addrs), err |-> FALSE]

GetInterfaceIPv4s ==
    /\ netOut = NoResult
    /\ netOut' = getInterfaceIPv4sResult(netIn)
    /\ UNCHANGED <<netIn, imgLookup, imgField, imgOut, lsTodo, rows, cmdVars, portVars>>

InitNet ==
    /\ CmdIdle
    /\ PortIdle
    /\ netIn \in { [err |-> TRUE, addrs |-> <<>>] } \cup
                 { [err |-> FALSE, addrs |-> a] : a \in AddrLists }
    /\ netOut = NoResult
    /\ imgLookup = NoResult
    /\ imgField = "none"
    /\ imgOut = NoResult
    /\ lsTodo = <<>>
    /\ rows = <<>>

NextNet == GetInterfaceIPv4s

SpecNet == InitNet /\ [][NextNet]_vars

----------------------------------------------------------------------------
(* Image metadata *)

T1 == <<"t", "1">>
T2 == <<"t", "2">>
D1 == <<"d", "1">>
R1 == <<"r", "1">>
CreatedAt == <<"2", "0", "1", "8">>

NotPresent == <<"image is not present, did you remove it?">>

UnknownRelease == <<"unknown image release, are you running an official image?">>

\* strings.Join(elems, "")
RECURSIVE Join(_)
Join(elems) ==
    IF elems = <<>> THEN <<>> ELSE elems[1] \o Join(Tail(elems))

\* the value of a Go map at a key, "" when the key is missing
MapGet(mp, k) == IF k \in DOMAIN mp THEN mp[k] ELSE <<>>

NoLabels == [k \in {} |-> <<>>]

LabelMaps == { NoLabels, [k \in {"RELEASE"} |-> <<>>], [k \in {"RELEASE"} |-> R1] }

TagLists == UNION { [1..n -> {T1, T2}] : n \in 0..MaxTags }

DigestLists == UNION { [1..n -> {D1}] : n \in 0..MaxTags }

\* types.ImageInspect, the fields that inspectImage reads
Images ==
    [RepoTags : TagLists, RepoDigests : DigestLists, Created : {CreatedAt},
     Labels : LabelMaps]

NoImage ==
    [RepoTags |-> <<>>, RepoDigests |-> <<>>, Created |-> <<>>, Labels |-> NoLabels]

\* what ImageInspectWithRaw may return: the image, a not-found error, or
\* another error (the engine cannot be reached)
ImageLookups ==
    { [err |-> e, image |-> NoImage] : e \in {"notFound", "unreachable"} } \cup
    { [err |-> "none", image |-> i] : i \in Images }

DataTypes == {"tag", "created", "release"}

\* inspectImage where an image without tags has an empty tag field
inspectImage_NoDigests(lookup, dataType) ==
    IF lookup.err # "none" THEN NotPresent
    ELSE IF dataType = "tag" THEN Join(lookup.image.RepoTags)
    ELSE IF dataType = "created" THEN lookup.image.Created
    ELSE IF Len(MapGet(lookup.image.Labels, "RELEASE")) = 0 THEN UnknownRelease
    ELSE MapGet(lookup.image.Labels, "RELEASE")

\* inspectImage, given what ImageInspectWithRaw returned
inspectImage(lookup, dataType) ==
    IF lookup.err # "none" THEN NotPresent
    ELSE IF dataType = "tag"
         THEN IF Len(lookup.image.RepoTags) = 0
              THEN Join(lookup.image.RepoDigests)
              ELSE Join(lookup.image.RepoTags)
    ELSE IF dataType = "created" THEN lookup.image.Created
    ELSE IF Len(MapGet(lookup.image.Labels, "RELEASE")) = 0 THEN UnknownRelease
    ELSE MapGet(lookup.image.Labels, "RELEASE")

\* a call of inspectImage: it has no path on which the process is ended
InspectImage ==
    /\ imgOut = NoResult
    /\ imgOut' = [ret |-> inspectImage(imgLookup, imgField), fatal |-> FALSE]
    /\ UNCHANGED <<netIn, netOut, imgLookup, imgField, lsTodo, rows, cmdVars, portVars>>

InitImage ==
    /\ CmdIdle
    /\ PortIdle
    /\ netIn = NoResult
    /\ netOut = NoResult
    /\ imgLookup \in ImageLookups
    /\ imgField \in DataTypes
    /\ imgOut = NoResult
    /\ lsTodo = <<>>
    /\ rows = <<>>

NextImage == InspectImage

SpecImage == InitImage /\ [][NextImage]_vars

----------------------------------------------------------------------------
(* ls: showNanoClusters *)

\* a container that does not belong to the tool
OtherB == <<"/", "o", "-", "b">>

\* a container whose name holds the prefix, but not at its start
InnerC == <<"/", "x", "n", "s", "-", "c">>

LsNames == {EngineName, OtherB, InnerC}

\* s[n:]
SliceFrom(str, n) == SubSeq(str, n + 1, Len(str))

\* regexp.MatchString(pattern, str) for a pattern of literal characters:
\* the pattern is searched anywhere in str
MatchString(pattern, str) ==
    \E i \in 1..(Len(str) - Len(pattern) + 1) :
        SubSeq(str, i, i + Len(pattern) - 1) = pattern

\* the image ID that the engine has metadata for
StoredImageID == <<"i", "1">>

\* ImageInspectWithRaw(ctx, ImageID)
ImageInspectWithRaw(id) ==
    IF id = StoredImageID THEN imgLookup ELSE [err |-> "notFound", image |-> NoImage]

\* the orders in which the engine may return a set of containers
Orderings(S) ==
    { f \in [1..Cardinality(S) -> S] : \A x \in S : \E i \in DOMAIN f : f[i] = x }

\* what the engine may know about the image of the listed containers
LsImageLookups ==
    { [err |-> "notFound", image |-> NoImage],
      [err |-> "unreachable", image |-> NoImage],
      [err |-> "none", image |-> [RepoTags |-> <<T1>>, RepoDigests |-> <<D1>>,
                                  Created |-> CreatedAt,
                                  Labels |-> [k \in {"RELEASE"} |-> R1]]],
      [err |-> "none", image |-> [RepoTags |-> <<>>, RepoDigests |-> <<D1>>,
                                  Created |-> CreatedAt, Labels |-> NoLabels]] }

\* showNanoClusters that lists with All: false
ListNano_RunningOnly ==
    /\ pc = "start"
    /\ cmd = "ls"
    /\ Bump("list")
    /\ \E err \in BOOLEAN :
          IF err
          THEN /\ Terminate(1, "engine")
               /\ UNCHANGED lsTodo
          ELSE /\ lsTodo' \in Orderings(ContainerList(FALSE))
               /\ pc' = "lsRows"
               /\ UNCHANGED <<exitCode, fatalMsg>>
    /\ UNCHANGED <<netErr, cmd, IamSure, DeleteAll, containers, clog, envChanges,
                   seenStates, ImageName, RgwPort, poll, ips, printed, printedLog,
                   removals, steps, nPolls, absentPolls, markerAt, url,
                   keysFetched, probes, probeOkAt, lastProbe, netIn, netOut,
                   imgLookup, imgField, imgOut, rows, portVars>>

\* listNano / showNanoClusters: the ContainerList call and the table header
ListNano ==
    /\ pc = "start"
    /\ cmd = "ls"
    /\ Bump("list")
    /\ \E err \in BOOLEAN :
          IF err
          THEN /\ Terminate(1, "engine")
               /\ UNCHANGED lsTodo
          ELSE /\ lsTodo' \in Orderings(ContainerList(TRUE))
               /\ pc' = "lsRows"
               /\ UNCHANGED <<exitCode, fatalMsg>>
    /\ UNCHANGED <<netErr, cmd, IamSure, DeleteAll, containers, clog, envChanges,
                   seenStates, ImageName, RgwPort, poll, ips, printed, printedLog,
                   removals, steps, nPolls, absentPolls, markerAt, url,
                   keysFetched, probes, probeOkAt, lastProbe, netIn, netOut,
                   imgLookup, imgField, imgOut, rows, portVars>>

\* the row that showNanoClusters adds for name i of a container; the field
\* of records which engine name the row was made for
RowOf(container, i) ==
    LET id == SliceFrom(container.ImageID, 7)
        ContainerNameToShow == SliceFrom(container.Names[i], Len(ContainerNamePrefix))
    IN  [of |-> container.Names[i],
         name |-> SliceFrom(ContainerNameToShow, 1),
         state |-> container.State,
         tag |-> inspectImage(ImageInspectWithRaw(id), "tag"),
         release |-> inspectImage(ImageInspectWithRaw(id), "release"),
         created |-> inspectImage(ImageInspectWithRaw(id), "created")]

\* showNanoClusters: one turn of the loop over the containers (each has one
\* name)
ShowRow ==
    /\ pc = "lsRows"
    /\ lsTodo # <<>>
    /\ LET container == Head(lsTodo)
       IN  IF MatchString(ContainerNamePrefix, container.Names[1])
           THEN /\ calls' = [calls EXCEPT !["imageInspect"] = @ + 3]
                /\ rows' = Append(rows, RowOf(container, 1))
           ELSE UNCHANGED <<calls, rows>>
    /\ lsTodo' = Tail(lsTodo)
    /\ UNCHANGED <<netErr, cmd, IamSure, DeleteAll, pc, containers, clog, envChanges,
                   seenStates, ImageName, RgwPort, poll, ips, exitCode, fatalMsg,
                   printed, printedLog, removals, steps, nPolls, absentPolls,
                   markerAt, url, keysFetched, probes, probeOkAt, lastProbe,
                   netIn, netOut, imgLookup, imgField, imgOut, portVars>>

\* showNanoClusters: fmt.Println(table.Render()), and the command returns
RenderTable ==
    /\ pc = "lsRows"
    /\ lsTodo = <<>>
    /\ Say("table")
    /\ Terminate(0, "none")
    /\ UNCHANGED <<netErr, cmd, IamSure, DeleteAll, containers, clog, envChanges,
                   seenStates, ImageName, RgwPort, poll, ips, printedLog, calls,
                   removals, steps, nPolls, absentPolls, markerAt, url,
                   keysFetched, probes, probeOkAt, lastProbe, portVars, auxVars>>

InitList ==
    /\ cmd = "ls"
    /\ IamSure = FALSE
    /\ DeleteAll = FALSE
    /\ pc = "start"
    /\ containers \in [LsNames -> {Container(st) : st \in States \cup {Absent}}]
    /\ clog = <<>>
    /\ CmdFresh
    /\ PortIdle
    /\ netIn = NoResult
    /\ netOut = NoResult
    /\ imgLookup \in LsImageLookups
    /\ imgField = "none"
    /\ imgOut = NoResult
    /\ lsTodo = <<>>
    /\ rows = <<>>

NextList == ListNano \/ ShowRow \/ RenderTable

SpecList == InitList /\ [][NextList]_vars

----------------------------------------------------------------------------
(* Properties *)

\* no actor other than the command has touched the cluster's container
Undisturbed == envChanges = 0

\* the run was not ended by an error returned from an engine call
NoEngineError == fatalMsg # "engine"

Done == pc = "done"

OnlyListCalls == \A o \in OpNames \ {"list"} : calls[o] = 0

\* C1: the existence check used by the lifecycle commands judges the cluster
\* to exist if and only if its container is in state running or exited: when
\* the check has let the command pass, the container is running or exited,
\* and when it has ended the command with "does not exist", the container is
\* in neither state (container state not changed by anyone during the check).
C1_ExistsIffRunningOrExited ==
    (Undisturbed /\ calls["containerRemove"] = 0) =>
        /\ "exists" \in Range(steps) => ClusterState \in {"running", "exited"}
        /\ "doesNotExist" \in printed => ClusterState \notin {"running", "exited"}

\* C2: status on a cluster whose container is exited for the whole run prints
\* "is not running" and not "does not exist", exits with status 0, and makes
\* no log poll, no HTTP probe and no exec.
C2_ExitedStatusSaysNotRunning ==
    (cmd = "status" /\ Done /\ seenStates = {"exited"} /\ NoEngineError) =>
        /\ "notRunning" \in printed
        /\ "doesNotExist" \notin printed
        /\ exitCode = 0
        /\ calls["logs"] = 0 /\ calls["http"] = 0 /\ calls["exec"] = 0

\* C3: purge without the confirmation flag issues no engine call of any kind
\* and ends with exit status 1, whatever the delete-all flag and the state of
\* the cluster.
C3_UnconfirmedPurgeTouchesNothing ==
    (cmd = "purge" /\ ~IamSure) =>
        /\ \A o \in OpNames : calls[o] = 0
        /\ removals = <<>>
        /\ "purging" \notin printed
        /\ Done => (exitCode = 1 /\ "guidance" \in printed)

C3_Witness ==
    /\ cmd = "purge" /\ ~IamSure /\ DeleteAll /\ Done
    /\ ClusterState = "running"

\* the cluster existed when the command began: its container was running or
\* exited, and only the command itself has changed that
ExistedAtStart ==
    /\ Undisturbed
    /\ seenStates \ {Absent} # {}
    /\ seenStates \ {Absent} \subseteq {"running", "exited"}

\* C4: confirmed purge with delete-all on an existing cluster (running or
\* exited) issues the forced container removal, then the forced image removal
\* for the image reference the container had, and exits with status 0.
C4_PurgeAllRemovesContainerThenImage ==
    (cmd = "purge" /\ IamSure /\ DeleteAll /\ Done /\ ExistedAtStart /\ NoEngineError) =>
        /\ removals = << [op |-> "containerRemove", target |-> ContainerName,
                          options |-> ContainerRemoveOptions],
                         [op |-> "imageRemove", target |-> ClusterImage,
                          options |-> ImageRemoveOptions] >>
        /\ exitCode = 0

C6_NoProbeBeforeInternalHealthy ==
    /\ (calls["http"] > 0 \/ probes # <<>>) => markerAt # 0
    /\ "neverReachedCleanState" \in printed => (calls["http"] = 0 /\ probes = <<>>)

C6_Witness == calls["http"] > 0 /\ markerAt # 0

\* C7: Phase 2. At most 30 HTTP GET probes are issued, every one of them
\* against http://<element 0 of the address list>:<inspected port>; the probe
\* that gets a response with a readable body is the last one and the command
\* goes on; after 30 failed probes no further probe is made, the gateway log
\* is printed (unless fetching it returned an engine error) and the process
\* is dead with exit status 1.
C7_Phase2ProbesAndTimeout ==
    /\ Len(probes) <= 30
    /\ calls["http"] = Len(probes)
    /\ \A i \in DOMAIN probes : probes[i] = url /\ url.port = ClusterPort
    /\ pc = "s3Health" =>
          /\ ips # <<>>
          /\ url.host = ips[1]
          /\ \A j \in DOMAIN ips : ips[j].last <= url.host.last
          /\ probes # <<>> => lastProbe # "ok"
    /\ probeOkAt # 0 <=> lastProbe = "ok"
    /\ probeOkAt # 0 =>
          /\ probeOkAt \in 1..30
          /\ Len(probes) = probeOkAt
          /\ pc \notin {"s3Health", "showS3Logs"}
          /\ "s3NotResponding" \notin printed
          /\ fatalMsg # "openIssue"
    /\ (Len(probes) = 30 /\ probeOkAt = 0) =>
          /\ pc \in {"s3Health", "showS3Logs", "done"}
          /\ Done => /\ exitCode = 1
                     /\ "s3NotResponding" \in printed
                     /\ fatalMsg \in {"openIssue", "engine"}
                     /\ fatalMsg = "openIssue" <=> "s3Logs" \in printed
    /\ "s3NotResponding" \in printed => (Len(probes) = 30 /\ probeOkAt = 0)

C7_Witness ==
    /\ Len(probes) = 30
    /\ probeOkAt = 0
    /\ Done
    /\ "s3Logs" \in printed
    /\ fatalMsg = "openIssue"

\* the stages of the status command named by the claim, in the claimed order
StatusOrder ==
    <<"requireExists", "requireRunning", "phase1", "phase2", "credentials",
      "cephHealth", "report">>

InStatusOrder(x) == x \in Range(StatusOrder)

ReadinessTimedOut == fatalMsg \in {"openIssueWithLogs", "openIssue"}

\* C8: the status command starts its stages in the order requireExists,
\* requireRunning, Phase 1, Phase 2, credential fetch, health exec, report,
\* none started before the previous one; credential fetch, health exec and
\* report happen only after a probe of Phase 2 has succeeded, and a run that
\* ended in a readiness timeout has done none of the three.
C8_StatusOrder ==
    cmd = "status" =>
        LET started == SelectSeq(steps, InStatusOrder)
        IN  /\ started = SubSeq(StatusOrder, 1, Len(started))
            /\ ( \/ "credentials" \in Range(steps)
                 \/ "cephHealth" \in Range(steps)
                 \/ "report" \in printed
                 \/ keysFetched
                 \/ calls["exec"] > 0 ) => probeOkAt # 0
            /\ ReadinessTimedOut =>
                  /\ calls["exec"] = 0
                  /\ ~keysFetched
                  /\ "report" \notin printed
                  /\ Range(steps) \cap {"credentials", "cephHealth", "report"} = {}

C8_Witness ==
    /\ cmd = "status"
    /\ Done
    /\ "report" \in printed
    /\ steps = <<"requireExists", "exists", "requireRunning", "inspectPort",
                 "phase1", "phase2", "credentials", "cephHealth", "report">>

\* C9: status or confirmed purge on a cluster that has no container in the
\* engine issues no engine call other than container listing, and (the
\* listing calls having been answered) prints "does not exist" and exits
\* with status 0.
C9_AbsentClusterOnlyListed ==
    ((cmd = "status" \/ (cmd = "purge" /\ IamSure)) /\ seenStates = {Absent}) =>
        /\ OnlyListCalls
        /\ removals = <<>>
        /\ calls["list"] <= 2
        /\ (Done /\ NoEngineError) =>
              /\ printed = {"doesNotExist"}
              /\ exitCode = 0
              /\ calls["list"] = 2

C9_Witness ==
    /\ cmd = "purge" /\ IamSure /\ DeleteAll
    /\ seenStates = {Absent}
    /\ Done
    /\ "doesNotExist" \in printed
    /\ exitCode = 0

\* the decimal string of a four-digit port number
FourDigits(p) ==
    << Digits[(p \div 1000) + 1], Digits[((p \div 100) % 10) + 1],
       Digits[((p \div 10) % 10) + 1], Digits[(p % 10) + 1] >>

\* C10: generateRGWPortToUse dials the ports 8000, 8001, ... in ascending
\* order and returns the lowest port of 8000..8100 on which the dial fails,
\* having dialled no port above it; it returns "notfound" when the dial
\* succeeds on all 101 ports; when exactly one port k lets the dial fail it
\* returns k.
C10_LowestFreePort ==
    /\ \A i \in DOMAIN probedPorts : probedPorts[i] = 8000 + i - 1
    /\ Len(probedPorts) <= 101
    /\ portResult # <<>> =>
          LET free == dialFails \cap (8000..8100)
          IN  IF free = {}
              THEN /\ portResult = <<"n", "o", "t", "f", "o", "u", "n", "d">>
                   /\ Len(probedPorts) = 101
              ELSE LET p == CHOOSE x \in free : \A y \in free : x <= y
                   IN  /\ portResult = FourDigits(p)
                       /\ probedPorts[Len(probedPorts)] = p
                       /\ (\A k \in 8000..8100 : free = {k} => portResult = FourDigits(k))

C10_Witness ==
    /\ dialFails = {8050, 8100}
    /\ portResult = <<"8", "0", "5", "0">>
    /\ Len(probedPorts) = 51

Count(seq, a) == Cardinality({i \in DOMAIN seq : seq[i] = a})

\* C11: getInterfaceIPv4s returns exactly the IPv4 addresses among the
\* enumerated ones (each as often as it was enumerated, the others dropped),
\* in an order where the last octet never increases; last octets
\* [1, 200, 50] come back as [200, 50, 1]; with no IPv4 address enumerated
\* the result is the empty sequence and no error.
C11_IPv4sByLastOctetDescending ==
    (netOut # NoResult /\ ~netIn.err) =>
        /\ ~netOut.err
        /\ \A a \in AddrUniverse :
              Count(netOut.ips, a) = IF a.v4 THEN Count(netIn.addrs, a) ELSE 0
        /\ \A i, j \in DOMAIN netOut.ips :
              i < j => netOut.ips[i].last >= netOut.ips[j].last
        /\ netIn.addrs = <<Lo, Eth200, Eth50>> => netOut.ips = <<Eth200, Eth50, Lo>>
        /\ (\A i \in DOMAIN netIn.addrs : ~netIn.addrs[i].v4) => netOut.ips = <<>>

C11_Witness ==
    /\ netIn = [err |-> FALSE, addrs |-> <<Lo, Eth200, Eth50>>]
    /\ netOut = [ips |-> <<Eth200, Eth50, Lo>>, err |-> FALSE]

\* the concatenation of a list of at most three strings
Joined(l) ==
    IF Len(l) = 0 THEN <<>>
    ELSE IF Len(l) = 1 THEN l[1]
    ELSE IF Len(l) = 2 THEN l[1] \o l[2]
    ELSE l[1] \o l[2] \o l[3]

\* C12: inspectImage never ends the process on a missing image and degrades
\* per field: "tag" gives the tags when there is at least one, else the repo
\* digests (no tags and the one digest d1 give d1); the release field gives
\* the RELEASE label, or the unknown-release sentinel when the label is
\* missing or empty; an image that is not found gives the not-present
\* sentinel for every field.
C12_InspectImageDegrades ==
    imgOut # NoResult =>
        LET img == imgLookup.image
        IN  /\ imgLookup.err = "notFound" =>
                  (~imgOut.fatal /\ imgOut.ret = NotPresent)
            /\ (imgLookup.err = "none" /\ imgField = "tag") =>
                  /\ ~imgOut.fatal
                  /\ img.RepoTags # <<>> => imgOut.ret = Joined(img.RepoTags)
                  /\ img.RepoTags = <<>> => imgOut.ret = Joined(img.RepoDigests)
                  /\ (img.RepoTags = <<>> /\ img.RepoDigests = << <<"d", "1">> >>)
                        => imgOut.ret = <<"d", "1">>
            /\ (imgLookup.err = "none" /\ imgField = "release") =>
                  /\ ~imgOut.fatal
                  /\ IF "RELEASE" \in DOMAIN img.Labels /\ img.Labels["RELEASE"] # <<>>
                     THEN imgOut.ret = img.Labels["RELEASE"]
                     ELSE imgOut.ret = UnknownRelease

C12_Witness ==
    /\ imgLookup.err = "none"
    /\ imgLookup.image.RepoTags = <<>>
    /\ imgLookup.image.RepoDigests = <<D1>>
    /\ imgField = "tag"
    /\ imgOut # NoResult
    /\ imgOut.ret = D1

\* C13: when the image lookup fails for a reason other than the image not
\* being found, inspectImage ends the process with a fatal status and returns
\* no sentinel string.
C13_OtherLookupFailureIsFatal ==
    (imgOut # NoResult /\ imgLookup.err = "unreachable") =>
        (imgOut.fatal /\ imgOut.ret # NotPresent)

\* the containers that the engine holds
Present == {n \in DOMAIN containers : containers[n].State # Absent}

\* the name, after its leading separator, begins with the namespace prefix
BeginsWithPrefix(n) ==
    /\ Len(n) >= 1 + Len(ContainerNamePrefix)
    /\ SubSeq(n, 2, 1 + Len(ContainerNamePrefix)) = ContainerNamePrefix

RowsFor(n) == {i \in DOMAIN rows : rows[i].of = n}

Listed == cmd = "ls" /\ Done /\ exitCode = 0

\* C14: the list command renders a row for a container name if and only if
\* the name, after its leading separator, begins with the namespace prefix,
\* and the row shows the logical name (prefix and separator stripped); a name
\* that does not begin with the prefix gets no row.
C14_RowsOnlyForPrefixedNames ==
    Listed =>
        /\ \A n \in Present : RowsFor(n) # {} <=> BeginsWithPrefix(n)
        /\ \A i \in DOMAIN rows :
              /\ BeginsWithPrefix(rows[i].of)
              /\ ContainerNamePrefix \o rows[i].name = Tail(rows[i].of)

C16_NetErrorIsFatal ==
    (cmd = "status" /\ netErr) => (Done /\ exitCode = 1)

\* C18: purge with the confirmation flag and without the delete-all flag
\* issues no container inspect and no image removal; its only mutating call
\* is the forced removal of the cluster's container with its volumes, links
\* kept, and the process-wide image name stays as it was.
C18_ContainerOnlyPurge ==
    (cmd = "purge" /\ IamSure /\ ~DeleteAll) =>
        /\ calls["inspect"] = 0
        /\ calls["imageRemove"] = 0
        /\ ImageName = DefaultImageName
        /\ \/ removals = <<>>
           \/ removals = << [op |-> "containerRemove", target |-> ContainerName,
                             options |-> [RemoveLinks |-> FALSE,
                                          RemoveVolumes |-> TRUE,
                                          Force |-> TRUE]] >>
        /\ calls["containerRemove"] = Len(removals)

C18_Witness ==
    /\ cmd = "purge" /\ IamSure /\ ~DeleteAll
    /\ Done
    /\ Len(removals) = 1
    /\ "running" \in seenStates
    /\ ClusterState = Absent

\* C19 as stated: in the status command no container inspect is issued
\* before the first readiness log poll.
C19_NoInspectBeforeFirstPoll ==
    cmd = "status" => (calls["logs"] = 0 => calls["inspect"] = 0)

\* C19 as amended: in the status command the gateway port is resolved by one
\* container inspect after the running check and before the first readiness
\* log poll; no other container inspect is issued before the first probe of
\* Phase 2.
C19_PortResolvedBeforePhase1 ==
    cmd = "status" =>
        /\ calls["logs"] > 0 => (calls["inspect"] >= 1 /\ RgwPort # "none")
        /\ calls["inspect"] > 0 => "requireRunning" \in Range(steps)
        /\ probes = <<>> => calls["inspect"] <= 1

C19_Witness ==
    /\ cmd = "status"
    /\ calls["logs"] = 1
    /\ calls["inspect"] = 1
    /\ RgwPort = ClusterPort
    /\ probes = <<>>

\* C20: when Phase 1 ends UNHEALTHY, the log printed to the user does not
\* contain the marker token, also when the container appends to its log
\* while the command runs.
C20_TimeoutLogLacksMarker ==
    fatalMsg = "openIssueWithLogs" => ~ContainsMarker(printedLog)

\* a readiness loop is left either on success or, its ceiling exhausted or
\* an engine call failed, towards fatal termination, and it is entered only
\* before its first poll
LoopsRunOnce ==
    /\ (pc = "cephNanoHealth" /\ pc' # pc) =>
          \/ pc' = "s3Ips" /\ markerAt' # 0
          \/ pc' = "done" /\ exitCode' = 1
    /\ (pc = "s3Health" /\ pc' # pc) =>
          \/ pc' = "getAwsKey" /\ probeOkAt' # 0
          \/ pc' = "showS3Logs" /\ Len(probes) = cephNanoS3Health_timeout
    /\ pc = "showS3Logs" => (pc' \in {"showS3Logs", "done"} /\ exitCode' \in {-1, 1})
    /\ (pc # "cephNanoHealth" /\ pc' = "cephNanoHealth") => nPolls = 0
    /\ (pc # "s3Health" /\ pc' = "s3Health") => probes = <<>>

\* C17: every execution of the status command terminates whatever the engine
\* and the gateway answer: it makes at most 60 readiness log polls and at
\* most 30 HTTP probes, each poll loop ends in success or in ceiling
\* exhaustion followed by fatal termination, and no loop is re-entered.
C17_StatusTerminates ==
    /\ <>Done
    /\ [](nPolls <= 60 /\ Len(probes) <= 30)
    /\ [][LoopsRunOnce]_vars

C17_Witness ==
    /\ cmd = "status"
    /\ Done
    /\ nPolls = 60
    /\ fatalMsg = "openIssueWithLogs"

\* C21: once the existence check of a confirmed purge has passed, a container
\* that has meanwhile been removed by someone else is never reported as a
\* failure: whichever step ends the command while the container is gone,
\* with or without the delete-all flag, ends it with exit status 0.
C21_VanishedContainerIsNoFailure ==
    [][ ( /\ cmd = "purge"
          /\ IamSure
          /\ "exists" \in Range(steps)
          /\ ClusterState = Absent
          /\ pc # "done"
          /\ pc' = "done" ) => exitCode' = 0 ]_vars

====
